---- MODULE Spec2Model ----
(***************************************************************************)
(* Lead-management backend (crmbackend): the Lead and Call collections,    *)
(* and the request handlers of the lead and call controllers.              *)
(*                                                                         *)
(* Every handler is an async function; between two awaits it runs          *)
(* atomically, and at each await other requests may run.  A handler is     *)
(* therefore modelled as one action per await-delimited segment, and       *)
(* handlers of concurrent requests interleave at these boundaries.  The    *)
(* arrival of a request is merged with the segment up to its first store   *)
(* operation (the request has no effect before it).  A populate() that     *)
(* only decorates the response is merged with the store operation before   *)
(* it, except in createCall, where it separates two writes.                *)
(***************************************************************************)
EXTENDS Integers, Sequences, FiniteSets, TLC

\* ------------------------------------------------------------------ bounds
\* Total number of requests served in one behaviour.
MaxRequests == 3

\* The clock counts in units of a day's DayLen-th part.
DayLen == 4

\* The clock does not pass MaxNow.
MaxNow == 6

\* Concurrent request handlers (requests in flight at the same time).
Procs == {"h1", "h2"}

\* ------------------------------------------------------------- enumerations
Users == {"admin", "t1", "t2"}

LeadStatuses == {"new", "contacted", "qualified", "proposal", "converted", "lost"}
LeadSources == {"website", "referral", "social", "direct", "other"}
CallStatuses == {"connected", "not_connected"}
ConnectedResponses == {"discussed", "callback", "interested"}
NotConnectedReasons == {"busy", "rnr", "switched_off"}

\* A field that the request body does not carry (undefined in the code).
Absent == "absent"

\* Values that requests of the model send for a lead's source (a subset of
\* the enumeration: the handlers treat all valid sources alike).
SourceInputs == {"website", "other"}

\* Values that requests of the model send for the other fields.
CreateStatusInputs == {"qualified"}
UpdateStatusInputs == {"lost"}
OwnerInputs == {"t2"}
ResponseInputs == {"discussed", "interested"}
ReasonInputs == {"busy"}
FilterStatusInputs == {"new"}
FilterSourceInputs == {"website"}
SortOrderInputs == {"asc"}
PageInputs == {2}
LimitInputs == {1}

\* getLeads: parseInt(req.query.limit) || 100
DefaultLimit == 100

\* getCallTrends: parseInt(req.query.days, 10) || 7
DefaultDays == 7

\* Values that requests send for days (0: the query string carries none).
DaysInputs == {0, 1, 2}

\* Offsets of the server's local time from UTC, in units of the clock.
TzInputs == {-1, 0, 1}

VARIABLES
  leads,     \* Lead collection: function from _id to document
  calls,     \* Call collection: function from _id to document
  nextLead,  \* next fresh Lead _id
  nextCall,  \* next fresh Call _id
  pc,        \* per handler: the segment it is about to run, or "idle"
  loc,       \* per handler: the request and the handler's local variables
  out,       \* the response sent by the last step, if any, with its handler's locals
  nreq,      \* number of requests started
  users,     \* User collection: function from _id to document
  now,       \* the clock (Date.now()), in units of a day's DayLen-th part, UTC
  tz         \* the server's local time is UTC + tz

vars == <<leads, calls, nextLead, nextCall, pc, loc, out, nreq, users, now, tz>>

\* bcrypt.hash(password, salt), and matchPassword against a stored hash.
Hash(password) == <<"bcrypt", password>>
MatchPassword(doc, password) == doc.password = Hash(password)

\* The User collection that the lead and call handlers run against: an admin
\* and two telecallers.  A document's name stands for its name and email,
\* which the handlers treat alike.
Users0 ==
  [u \in Users |->
     [role |-> IF u = "admin" THEN "admin" ELSE "telecaller",
      name |-> "n0", phone |-> "p0", password |-> Hash("pw0"), lastActive |-> 0]]
NoUser == [role |-> "none", name |-> "none", phone |-> "none", password |-> <<>>,
           lastActive |-> 0]

\* req.user.role: the role of the authenticated caller's User document.
Role(u) == users[u].role

\* ------------------------------------------------------------------ documents
NoLead == [id |-> 0, status |-> "none", source |-> "none",
           createdBy |-> "none", lastModifiedBy |-> "none"]
NoCall == [lead |-> 0, user |-> "none", status |-> "none", duration |-> 0,
           connectedResponse |-> Absent, notConnectedReason |-> Absent,
           createdAt |-> 0]
\* The fields of a request (body, route parameter and query string) that the
\* handlers read.
NoReq == [id |-> 0, status |-> Absent, source |-> Absent, createdBy |-> Absent,
          connectedResponse |-> Absent, notConnectedReason |-> Absent,
          sort_order |-> Absent, page |-> 0, limit |-> 0, days |-> 0,
          uid |-> Absent, name |-> Absent, phone |-> Absent, role |-> Absent,
          newPassword |-> Absent, currentPassword |-> Absent,
          duration |-> [present |-> FALSE, numeric |-> FALSE, val |-> 0]]

\* req.body.duration: absent, a number (val), or something that is no number.
NoDuration == NoReq.duration
Numeric(n) == [present |-> TRUE, numeric |-> TRUE, val |-> n]
NotNumeric == [present |-> TRUE, numeric |-> FALSE, val |-> 0]

\* Values that requests of the call-only system send for duration: signed,
\* zero and positive numbers, and a value that is no number.
DurationInputs == {Numeric(-1), Numeric(0), Numeric(2), NotNumeric}

\* The counts that getDashboardStats collects.
NoStats == [totalLeads |-> 0, totalCalls |-> 0, connectedCalls |-> 0,
            callsThisWeek |-> 0]

\* A handler's locals: the operation, req.user._id, the request, the lead
\* document read by findById, callData, the _id of the created Call,
\* newStatus and the counts of getDashboardStats; for the user handlers
\* req.user.role, the User document as read by findById (udoc) and as changed
\* in memory (unew), and updateFields.
Loc0 == [op |-> "none", user |-> "none", req |-> NoReq, lead |-> NoLead,
         callData |-> NoCall, callId |-> 0, newStatus |-> "none",
         stats |-> NoStats, role |-> "none", udoc |-> NoUser, unew |-> NoUser,
         updateFields |-> <<>>]
Out0 == [code |-> 0, data |-> <<>>, by |-> Loc0]

\* Model.findById: the document, or null.
FindLead(id) == IF id \in DOMAIN leads THEN leads[id] ELSE NoLead

\* Ids a request may name: every id handed out so far, and one that was not.
LeadIdInputs == 1..nextLead

\* Function f without the keys ks / with key k bound to v.
Without(f, ks) == [k \in (DOMAIN f) \ ks |-> f[k]]
With(f, k, v) == [x \in (DOMAIN f) \cup {k} |-> IF x = k THEN v ELSE f[x]]

\* ------------------------------------------------------------ access policy
\* Variant: the ownership test is applied to the wrong role.
NotOwnerWrongRole(u, lead) == Role(u) = "admin" /\ lead.createdBy # u

\* req.user.role === 'telecaller' && lead.createdBy !== req.user._id
NotOwner(u, lead) == Role(u) = "telecaller" /\ lead.createdBy # u

\* ------------------------------------------------------------------ plumbing
\* A request arrives and is served by the first free handler.
Start(p) ==
  /\ pc[p] = "idle"
  /\ p = "h1" \/ pc["h1"] # "idle"
  /\ nreq < MaxRequests
  /\ nreq' = nreq + 1

\* The handler with locals l answers and ends.
Reply(p, l, code, data) ==
  /\ pc' = [pc EXCEPT ![p] = "idle"]
  /\ loc' = [loc EXCEPT ![p] = Loc0]
  /\ out' = [code |-> code, data |-> data, by |-> l]

\* The handler goes on to segment s with locals l.
Goto(p, l, s) ==
  /\ pc' = [pc EXCEPT ![p] = s]
  /\ loc' = [loc EXCEPT ![p] = l]
  /\ out' = Out0

Init ==
  /\ leads = <<>>
  /\ calls = <<>>
  /\ nextLead = 1
  /\ nextCall = 1
  /\ pc = [p \in Procs |-> "idle"]
  /\ loc = [p \in Procs |-> Loc0]
  /\ out = Out0
  /\ nreq = 0
  /\ users = Users0
  /\ now = 0
  /\ tz = 0

\* ================================================================ createLead
\* Lead.create({ ...req.body, createdBy, lastModifiedBy }): status comes from
\* the body (the schema defaults it to 'new'), the two user references from
\* the caller.
NewLeadDoc(id, u, req) ==
  [id |-> id,
   status |-> IF req.status = Absent THEN "new" ELSE req.status,
   source |-> req.source,
   createdBy |-> u,
   lastModifiedBy |-> u]

\* leadValidation requires a valid source (400 otherwise); Lead.create; the
\* populate of createdBy decorates the response only.
CreateLead(p) ==
  /\ Start(p)
  /\ \E u \in Users, src \in SourceInputs \cup {Absent},
        st \in CreateStatusInputs \cup {Absent} :
       LET req == [NoReq EXCEPT !.source = src, !.status = st]
           l == [Loc0 EXCEPT !.op = "createLead", !.user = u, !.req = req]
       IN IF src = Absent
          THEN /\ Reply(p, l, 400, <<>>)
               /\ UNCHANGED <<leads, calls, nextLead, nextCall>>
          ELSE LET doc == NewLeadDoc(nextLead, u, req)
               IN /\ leads' = With(leads, nextLead, doc)
                  /\ nextLead' = nextLead + 1
                  /\ Reply(p, [l EXCEPT !.req.id = nextLead], 201, doc)
                  /\ UNCHANGED <<calls, nextCall>>

\* ================================================================ createCall
\* Variant: the outcome fields are validated only when the body carries them.
CallValidationOptional(req) ==
  /\ req.status \in CallStatuses
  /\ req.duration.present => req.duration.numeric
  /\ req.status = "connected"
       => req.connectedResponse \in ConnectedResponses \cup {Absent}
  /\ req.status = "not_connected"
       => req.notConnectedReason \in NotConnectedReasons \cup {Absent}

\* callValidation (express-validator): status must be one of the two values;
\* duration, if present, must be numeric (a signed number is);
\* connectedResponse is checked only if status is connected, and must then be
\* present and valid; notConnectedReason likewise for not_connected.
CallValidationOk(req) ==
  /\ req.status \in CallStatuses
  /\ req.duration.present => req.duration.numeric
  /\ req.status = "connected" => req.connectedResponse \in ConnectedResponses
  /\ req.status = "not_connected" => req.notConnectedReason \in NotConnectedReasons

\* Variant: callData takes every outcome field that the body carries.
CallDataBothFields(u, req) ==
  [lead |-> req.id,
   user |-> u,
   status |-> req.status,
   duration |-> IF req.duration.present /\ req.duration.val # 0
                THEN req.duration.val ELSE 0,
   createdAt |-> 0,
   connectedResponse |-> req.connectedResponse,
   notConnectedReason |-> req.notConnectedReason]

\* callData as built by createCall (duration: duration || 0); createdAt is
\* set when the document is created.
CallData(u, req) ==
  [lead |-> req.id,
   user |-> u,
   status |-> req.status,
   duration |-> IF req.duration.present /\ req.duration.val # 0
                THEN req.duration.val ELSE 0,
   createdAt |-> 0,
   connectedResponse |->
     IF req.status = "connected" /\ req.connectedResponse # Absent
     THEN req.connectedResponse ELSE Absent,
   notConnectedReason |->
     IF ~(req.status = "connected" /\ req.connectedResponse # Absent)
        /\ req.status = "not_connected" /\ req.notConnectedReason # Absent
     THEN req.notConnectedReason ELSE Absent]

\* Variant: an interested response qualifies a new lead only.
NewStatusNewOnly(leadStatus, status, connectedResponse) ==
  IF status # "connected" THEN leadStatus
  ELSE IF connectedResponse = "interested" /\ leadStatus \in {"new"}
       THEN "qualified"
       ELSE IF leadStatus = "new" THEN "contacted" ELSE leadStatus

\* newStatus as computed by createCall after the Call is stored, from the
\* lead document that was read at the start of the handler.
NewStatus(leadStatus, status, connectedResponse) ==
  IF status # "connected" THEN leadStatus
  ELSE IF connectedResponse = "interested" /\ leadStatus \in {"new", "contacted"}
       THEN "qualified"
       ELSE IF leadStatus = "new" THEN "contacted" ELSE leadStatus

\* validationResult (400); Lead.findById (404); ownership (403); callData.
\* Responses, Reasons and Durations are the values requests send for
\* connectedResponse, notConnectedReason and duration.
CC_Request(p, Responses, Reasons, Durations) ==
  /\ Start(p)
  /\ \E u \in Users, id \in LeadIdInputs, st \in CallStatuses,
        cr \in Responses \cup {Absent}, ncr \in Reasons \cup {Absent},
        d \in Durations \cup {NoDuration} :
       LET req == [NoReq EXCEPT !.id = id, !.status = st,
                                !.connectedResponse = cr,
                                !.notConnectedReason = ncr,
                                !.duration = d]
           lead == FindLead(id)
           l == [Loc0 EXCEPT !.op = "createCall", !.user = u, !.req = req]
       IN IF ~CallValidationOk(req) THEN Reply(p, l, 400, <<>>)
          ELSE IF lead = NoLead THEN Reply(p, l, 404, <<>>)
          ELSE IF NotOwner(u, lead) THEN Reply(p, [l EXCEPT !.lead = lead], 403, <<>>)
          ELSE Goto(p, [l EXCEPT !.lead = lead, !.callData = CallData(u, req)],
                    "cc_create")
  /\ UNCHANGED <<leads, calls, nextLead, nextCall>>

CC_FindLead(p) == CC_Request(p, ResponseInputs, ReasonInputs, {})

\* The document that Call.create(callData) stores at time t (createdAt
\* defaults to Date.now).
NewCallDoc(callData, t) == [callData EXCEPT !.createdAt = t]

\* Call.create(callData); then the test lead.status === 'new' on the document
\* read at the start.
CC_Create(p) ==
  /\ pc[p] = "cc_create"
  /\ calls' = With(calls, nextCall, NewCallDoc(loc[p].callData, now))
  /\ nextCall' = nextCall + 1
  /\ Goto(p, [loc[p] EXCEPT !.callId = nextCall],
          IF loc[p].lead.status = "new" THEN "cc_update" ELSE "cc_populate")
  /\ UNCHANGED <<leads, nextLead, nreq>>

\* Variant: the catch block removes the Call that the handler created.
CC_CatchRollback(p) ==
  /\ Reply(p, loc[p], 500, <<>>)
  /\ calls' = Without(calls, {loc[p].callId})
  /\ UNCHANGED <<leads, nextLead, nextCall, nreq>>

\* The catch block of createCall: log, answer 500.  Nothing is undone.
CC_Catch(p) ==
  /\ Reply(p, loc[p], 500, <<>>)
  /\ UNCHANGED <<leads, calls, nextLead, nextCall, nreq>>

\* Lead.findByIdAndUpdate(leadId, { status: 'contacted' }): one atomic update
\* of the stored document (null, and no error, if there is none).  The store
\* may reject the operation.
CC_Update(p) ==
  /\ pc[p] = "cc_update"
  /\ \/ /\ leads' = IF loc[p].req.id \in DOMAIN leads
                    THEN [leads EXCEPT ![loc[p].req.id].status = "contacted"]
                    ELSE leads
        /\ Goto(p, loc[p], "cc_populate")
        /\ UNCHANGED <<calls, nextLead, nextCall, nreq>>
     \/ CC_Catch(p)

\* call.populate(user, lead); then newStatus is computed and, if it differs
\* from the status of the document in memory, the document is changed.
CC_Populate(p) ==
  /\ pc[p] = "cc_populate"
  /\ LET ns == NewStatus(loc[p].lead.status, loc[p].req.status,
                         loc[p].req.connectedResponse)
     IN IF ns # loc[p].lead.status
        THEN Goto(p, [loc[p] EXCEPT !.newStatus = ns], "cc_save")
        ELSE Reply(p, loc[p], 201, loc[p].callId)
  /\ UNCHANGED <<leads, calls, nextLead, nextCall, nreq>>

\* lead.save(): writes the modified paths (status, lastModifiedBy) of the
\* document in memory to the stored document with its _id; Mongoose throws
\* DocumentNotFoundError if there is none.  The store may reject the operation.
CC_Save(p) ==
  /\ pc[p] = "cc_save"
  /\ \/ /\ loc[p].req.id \in DOMAIN leads
        /\ leads' = [leads EXCEPT ![loc[p].req.id].status = loc[p].newStatus,
                                  ![loc[p].req.id].lastModifiedBy = loc[p].user]
        /\ Reply(p, loc[p], 201, loc[p].callId)
        /\ UNCHANGED <<calls, nextLead, nextCall, nreq>>
     \/ CC_Catch(p)

\* ================================================================ updateLead
\* updateData = { ...req.body, lastModifiedBy: req.user._id } applied to a
\* stored document by findByIdAndUpdate: every field the body carries is set.
ApplyUpdate(doc, u, req) ==
  [doc EXCEPT
     !.status = IF req.status = Absent THEN @ ELSE req.status,
     !.source = IF req.source = Absent THEN @ ELSE req.source,
     !.createdBy = IF req.createdBy = Absent THEN @ ELSE req.createdBy,
     !.lastModifiedBy = u]

\* Lead.findById (404); ownership (403).
UL_FindLead(p) ==
  /\ Start(p)
  /\ \E u \in Users, id \in LeadIdInputs, st \in UpdateStatusInputs \cup {Absent},
        src \in SourceInputs \cup {Absent}, cb \in OwnerInputs \cup {Absent} :
       LET req == [NoReq EXCEPT !.id = id, !.status = st, !.source = src,
                                !.createdBy = cb]
           lead == FindLead(id)
           l == [Loc0 EXCEPT !.op = "updateLead", !.user = u, !.req = req,
                             !.lead = lead]
       IN IF lead = NoLead THEN Reply(p, l, 404, <<>>)
          ELSE IF NotOwner(u, lead) THEN Reply(p, l, 403, <<>>)
          ELSE Goto(p, l, "ul_update")
  /\ UNCHANGED <<leads, calls, nextLead, nextCall>>

\* Lead.findByIdAndUpdate(id, updateData, { new: true }): the updated
\* document, or null if there is none; answered with 200 either way.
UL_Update(p) ==
  /\ pc[p] = "ul_update"
  /\ LET id == loc[p].req.id
         doc == ApplyUpdate(FindLead(id), loc[p].user, loc[p].req)
     IN IF id \in DOMAIN leads
        THEN /\ leads' = [leads EXCEPT ![id] = doc]
             /\ Reply(p, loc[p], 200, doc)
        ELSE /\ leads' = leads
             /\ Reply(p, loc[p], 200, NoLead)
  /\ UNCHANGED <<calls, nextLead, nextCall, nreq>>

\* ================================================================ deleteLead
\* Lead.findById (404); ownership (403).
DL_FindLead(p) ==
  /\ Start(p)
  /\ \E u \in Users, id \in LeadIdInputs :
       LET lead == FindLead(id)
           l == [Loc0 EXCEPT !.op = "deleteLead", !.user = u, !.req.id = id,
                             !.lead = lead]
       IN IF lead = NoLead THEN Reply(p, l, 404, <<>>)
          ELSE IF NotOwner(u, lead) THEN Reply(p, l, 403, <<>>)
          ELSE Goto(p, l, "dl_calls")
  /\ UNCHANGED <<leads, calls, nextLead, nextCall>>

\* Call.deleteMany({ lead: id })
DL_DeleteCalls(p) ==
  /\ pc[p] = "dl_calls"
  /\ calls' = Without(calls, {c \in DOMAIN calls : calls[c].lead = loc[p].req.id})
  /\ Goto(p, loc[p], "dl_lead")
  /\ UNCHANGED <<leads, nextLead, nextCall, nreq>>

\* lead.deleteOne(): removes the stored document with this _id, if any.
DL_DeleteLead(p) ==
  /\ pc[p] = "dl_lead"
  /\ leads' = Without(leads, {loc[p].req.id})
  /\ Reply(p, loc[p], 200, <<>>)
  /\ UNCHANGED <<calls, nextLead, nextCall, nreq>>

\* ================================================================== getLeads
\* Variant: the query is not narrowed to the caller's leads.
LeadQueryUnscoped(u, req) ==
  [status |-> req.status, source |-> req.source, createdBy |-> Absent]

\* The query of getLeads: the status and source filters of the query string,
\* and createdBy for a telecaller.
LeadQuery(u, req) ==
  [status |-> req.status, source |-> req.source,
   createdBy |-> IF Role(u) = "telecaller" THEN u ELSE Absent]

Matches(doc, q) ==
  /\ q.status = Absent \/ doc.status = q.status
  /\ q.source = Absent \/ doc.source = q.source
  /\ q.createdBy = Absent \/ doc.createdBy = q.createdBy

Min(a, b) == IF a < b THEN a ELSE b
MinOf(S) == CHOOSE x \in S : \A y \in S : x <= y
MaxOf(S) == CHOOSE x \in S : \A y \in S : x >= y

\* The ids of S in ascending / descending order.  Documents are sorted by
\* createdAt, which is the order of their ids.
RECURSIVE Ascending(_)
Ascending(S) ==
  IF S = {} THEN <<>> ELSE <<MinOf(S)>> \o Ascending(S \ {MinOf(S)})
RECURSIVE Descending(_)
Descending(S) ==
  IF S = {} THEN <<>> ELSE <<MaxOf(S)>> \o Descending(S \ {MaxOf(S)})

\* Lead.find(query).sort(sort).skip(skip).limit(limit)
FindLeads(q, sortOrder, page, limit) ==
  LET ids == {i \in DOMAIN leads : Matches(leads[i], q)}
      sorted == IF sortOrder = "asc" THEN Ascending(ids) ELSE Descending(ids)
      skip == (page - 1) * limit
      rows == SubSeq(sorted, skip + 1, Min(Len(sorted), skip + limit))
  IN [k \in 1..Len(rows) |-> leads[rows[k]]]

\* getLeads: page = parseInt(req.query.page) || 1 and limit =
\* parseInt(req.query.limit) || 100 (an absent parameter and 0 are alike, and
\* are both written 0 here); one find, answered with 200.  (The countDocuments that follows
\* fills pagination.total only and is not represented.)
GetLeads(p) ==
  /\ Start(p)
  /\ \E u \in Users, st \in FilterStatusInputs \cup {Absent},
        src \in FilterSourceInputs \cup {Absent},
        so \in SortOrderInputs \cup {Absent},
        pg \in PageInputs \cup {0}, lim \in LimitInputs \cup {0} :
       LET req == [NoReq EXCEPT !.status = st, !.source = src, !.sort_order = so,
                                !.page = pg, !.limit = lim]
           page == IF pg = 0 THEN 1 ELSE pg
           limit == IF lim = 0 THEN DefaultLimit ELSE lim
           l == [Loc0 EXCEPT !.op = "getLeads", !.user = u, !.req = req]
       IN Reply(p, l, 200, FindLeads(LeadQuery(u, req), so, page, limit))
  /\ UNCHANGED <<leads, calls, nextLead, nextCall>>

\* =============================================================== getLeadById
\* Lead.findById (404); ownership (403).
GB_FindLead(p) ==
  /\ Start(p)
  /\ \E u \in Users, id \in LeadIdInputs :
       LET lead == FindLead(id)
           l == [Loc0 EXCEPT !.op = "getLeadById", !.user = u, !.req.id = id,
                             !.lead = lead]
       IN IF lead = NoLead THEN Reply(p, l, 404, <<>>)
          ELSE IF NotOwner(u, lead) THEN Reply(p, l, 403, <<>>)
          ELSE Goto(p, l, "gb_calls")
  /\ UNCHANGED <<leads, calls, nextLead, nextCall>>

\* Call.find({ lead: id }).sort({ createdAt: -1 }); answered with the lead
\* document read before and these calls.
GB_FindCalls(p) ==
  /\ pc[p] = "gb_calls"
  /\ LET ids == Descending({c \in DOMAIN calls : calls[c].lead = loc[p].req.id})
     IN Reply(p, loc[p], 200,
              [lead |-> loc[p].lead,
               calls |-> [k \in 1..Len(ids) |-> calls[ids[k]]]])
  /\ UNCHANGED <<leads, calls, nextLead, nextCall, nreq>>

\* ============================================ getLeadSources, getLeadStatuses
\* $group by the field with $sum 1: one group per value that occurs, over all
\* documents of the collection (the pipeline has no $match stage).
GroupCounts(field) ==
  {[value |-> v, count |-> Cardinality({i \in DOMAIN leads : leads[i][field] = v})] :
     v \in {leads[i][field] : i \in DOMAIN leads}}

RECURSIVE Orders(_)
Orders(S) ==
  IF S = {} THEN {<<>>}
  ELSE UNION {{<<x>> \o t : t \in Orders(S \ {x})} : x \in S}

\* $sort { count: -1 }: any order of the groups with the counts descending
\* (the order of groups with equal counts is not determined).
SortedByCount(G) ==
  {s \in Orders(G) : \A k \in 1..(Len(s) - 1) : s[k].count >= s[k + 1].count}

GetLeadSources(p) ==
  /\ Start(p)
  /\ \E u \in Users, s \in SortedByCount(GroupCounts("source")) :
       Reply(p, [Loc0 EXCEPT !.op = "getLeadSources", !.user = u], 200, s)
  /\ UNCHANGED <<leads, calls, nextLead, nextCall>>

GetLeadStatuses(p) ==
  /\ Start(p)
  /\ \E u \in Users, s \in SortedByCount(GroupCounts("status")) :
       Reply(p, [Loc0 EXCEPT !.op = "getLeadStatuses", !.user = u], 200, s)
  /\ UNCHANGED <<leads, calls, nextLead, nextCall>>

\* ------------------------------------------------------------------- system
Step(p) ==
  \/ CreateLead(p)
  \/ CC_FindLead(p)
  \/ CC_Create(p)
  \/ CC_Update(p)
  \/ CC_Populate(p)
  \/ CC_Save(p)
  \/ UL_FindLead(p)
  \/ UL_Update(p)
  \/ DL_FindLead(p)
  \/ DL_DeleteCalls(p)
  \/ DL_DeleteLead(p)
  \/ GetLeads(p)
  \/ GB_FindLead(p)
  \/ GB_FindCalls(p)
  \/ GetLeadSources(p)
  \/ GetLeadStatuses(p)

\* The handlers of the lead and call controllers leave the User collection
\* alone; the clock and the server's time zone are not theirs to change.
Next == \E p \in Procs : Step(p) /\ UNCHANGED <<users, now, tz>>

Spec == Init /\ [][Next]_vars

\* ------------------------------------------------- one createCall on one lead
\* A store that holds one lead, in any status, created and last modified by
\* any users (createLead and updateLead produce each of them), and one
\* request left to serve: a createCall with any outcome.
InitCall ==
  /\ \E st \in LeadStatuses, src \in SourceInputs, cb \in Users, mb \in Users :
       leads = With(<<>>, 1, [id |-> 1, status |-> st, source |-> src,
                              createdBy |-> cb, lastModifiedBy |-> mb])
  /\ calls = <<>>
  /\ nextLead = 2
  /\ nextCall = 1
  /\ pc = [p \in Procs |-> "idle"]
  /\ loc = [p \in Procs |-> Loc0]
  /\ out = Out0
  /\ nreq = MaxRequests - 1
  /\ users = Users0
  /\ now = 0
  /\ tz = 0

CallStep(p) ==
  \/ CC_Request(p, ConnectedResponses, NotConnectedReasons, DurationInputs)
  \/ CC_Create(p)
  \/ CC_Update(p)
  \/ CC_Populate(p)
  \/ CC_Save(p)

NextCallOnly == \E p \in Procs : CallStep(p) /\ UNCHANGED <<users, now, tz>>

SpecCall == InitCall /\ [][NextCallOnly]_vars

\* ============================================================= getCallTrends
\* The calendar day of instant t in the server's local time (getDate) and in
\* UTC (toISOString().split('T')[0], $dateToString without a timezone), as
\* day numbers.
LocalDay(t) == (t + tz) \div DayLen
DateStr(t) == t \div DayLen

\* parseInt(req.query.days, 10) || 7
Days(req) == IF req.days = 0 THEN DefaultDays ELSE req.days

\* startDate: setDate(getDate() - days + 1), setHours(0, 0, 0, 0): midnight,
\* local time, of the local day that lies days - 1 before the local today.
StartDate(t, days) == (LocalDay(t) - days + 1) * DayLen - tz

\* date.setDate(date.getDate() + i): the same local time i days later.
AddDays(t, i) == t + i * DayLen

\* The documents that $match lets through.
TrendMatch(u, startDate, endDate) ==
  {c \in DOMAIN calls :
     /\ calls[c].createdAt >= startDate /\ calls[c].createdAt <= endDate
     /\ Role(u) = "telecaller" => calls[c].user = u}

\* $group by the day of createdAt, $sort by _id.
TrendGroups(M) ==
  {[_id |-> d,
    count |-> Cardinality({c \in M : DateStr(calls[c].createdAt) = d}),
    connected |-> Cardinality({c \in M : /\ DateStr(calls[c].createdAt) = d
                                          /\ calls[c].status = "connected"})] :
     d \in {DateStr(calls[c].createdAt) : c \in M}}
SortedById(G) ==
  CHOOSE s \in Orders(G) : \A k \in 1..(Len(s) - 1) : s[k]._id < s[k + 1]._id

\* callTrends.find(item => item._id === dateStr) || { date: dateStr, ... }
TrendBucket(callTrends, dateStr) ==
  LET hits == {k \in 1..Len(callTrends) : callTrends[k]._id = dateStr}
  IN IF hits # {} THEN callTrends[MinOf(hits)]
     ELSE [date |-> dateStr, count |-> 0, connected |-> 0]

\* The result of getCallTrends for caller u at the time t of the request.
TrendResult(u, t, days) ==
  LET startDate == StartDate(t, days)
      callTrends == SortedById(TrendGroups(TrendMatch(u, startDate, t)))
  IN [i \in 1..days |-> TrendBucket(callTrends, DateStr(AddDays(startDate, i - 1)))]

GetCallTrends(p) ==
  /\ Start(p)
  /\ \E u \in Users, d \in DaysInputs :
       LET req == [NoReq EXCEPT !.days = d]
           l == [Loc0 EXCEPT !.op = "getCallTrends", !.user = u, !.req = req]
       IN Reply(p, l, 200, TrendResult(u, now, Days(req)))
  /\ UNCHANGED <<leads, calls, nextLead, nextCall>>

\* Time passes.
Tick ==
  /\ now < MaxNow
  /\ now' = now + 1
  /\ out' = Out0
  /\ UNCHANGED <<leads, calls, nextLead, nextCall, pc, loc, nreq, users, tz>>

\* The part of the system that creates calls and reports their trends, on a
\* server in any of the time zones, with one lead of t1 in the store; two
\* requests are served.
InitTrend ==
  /\ leads = With(<<>>, 1, [id |-> 1, status |-> "contacted", source |-> "website",
                             createdBy |-> "t1", lastModifiedBy |-> "t1"])
  /\ calls = <<>>
  /\ nextLead = 2
  /\ nextCall = 1
  /\ pc = [p \in Procs |-> "idle"]
  /\ loc = [p \in Procs |-> Loc0]
  /\ out = Out0
  /\ nreq = MaxRequests - 2
  /\ users = Users0
  /\ now = 0
  /\ tz \in TzInputs

TrendStep(p) ==
  \/ CC_Request(p, {"discussed"}, ReasonInputs, {})
  \/ CC_Create(p)
  \/ CC_Populate(p)
  \/ GetCallTrends(p)

NextTrend ==
  \/ \E p \in Procs : TrendStep(p) /\ UNCHANGED <<users, now, tz>>
  \/ Tick

SpecTrend == InitTrend /\ [][NextTrend]_vars

\* =========================================================== getDashboardStats
\* A percentage as the response words it: "0%" has no decimals, the result of
\* toFixed(2) has two.  The value is held in hundredths of a percent.
ZeroPercent == [hundredths |-> 0, decimals |-> 0]

\* ((connectedCalls / totalCalls) * 100).toFixed(2) + '%', or '0%' if
\* totalCalls is 0 (toFixed rounds to the nearest hundredth).
ConnectionRate(connectedCalls, totalCalls) ==
  IF totalCalls = 0 THEN ZeroPercent
  ELSE [hundredths |-> (2 * 10000 * connectedCalls + totalCalls) \div (2 * totalCalls),
        decimals |-> 2]

\* Lead.countDocuments(query), Call.countDocuments(callQuery) and
\* Call.countDocuments({ ...callQuery, status: 'connected' }) for caller u.
CountLeads(u) ==
  Cardinality({i \in DOMAIN leads : Role(u) = "telecaller" => leads[i].createdBy = u})
CountCalls(u) ==
  Cardinality({c \in DOMAIN calls : Role(u) = "telecaller" => calls[c].user = u})
CountConnected(u) ==
  Cardinality({c \in DOMAIN calls : /\ Role(u) = "telecaller" => calls[c].user = u
                                     /\ calls[c].status = "connected"})

\* User.countDocuments({ role: 'telecaller' })
CountTelecallers == Cardinality({u \in DOMAIN users : users[u].role = "telecaller"})

\* The four counts are four store operations, one after the other.
DS_CountLeads(p) ==
  /\ Start(p)
  /\ \E u \in Users :
       Goto(p, [Loc0 EXCEPT !.op = "getDashboardStats", !.user = u,
                            !.stats.totalLeads = CountLeads(u)], "ds_calls")
  /\ UNCHANGED <<leads, calls, nextLead, nextCall>>

DS_CountCalls(p) ==
  /\ pc[p] = "ds_calls"
  /\ Goto(p, [loc[p] EXCEPT !.stats.totalCalls = CountCalls(loc[p].user)],
          "ds_connected")
  /\ UNCHANGED <<leads, calls, nextLead, nextCall, nreq>>

DS_CountConnected(p) ==
  /\ pc[p] = "ds_connected"
  /\ Goto(p, [loc[p] EXCEPT !.stats.connectedCalls = CountConnected(loc[p].user)],
          "ds_telecallers")
  /\ UNCHANGED <<leads, calls, nextLead, nextCall, nreq>>

\* The last count, the rate and the response.
DS_CountTelecallers(p) ==
  /\ pc[p] = "ds_telecallers"
  /\ Reply(p, loc[p], 200,
           [totalLeads |-> loc[p].stats.totalLeads,
            totalCalls |-> loc[p].stats.totalCalls,
            connectedCalls |-> loc[p].stats.connectedCalls,
            connectionRate |-> ConnectionRate(loc[p].stats.connectedCalls,
                                              loc[p].stats.totalCalls),
            totalTelecallers |-> CountTelecallers])
  /\ UNCHANGED <<leads, calls, nextLead, nextCall, nreq>>

\* The part of the system that creates calls, deletes leads and reports the
\* dashboard counts, with one lead of t1 in the store.
InitStats ==
  /\ leads = With(<<>>, 1, [id |-> 1, status |-> "contacted", source |-> "website",
                             createdBy |-> "t1", lastModifiedBy |-> "t1"])
  /\ calls = <<>>
  /\ nextLead = 2
  /\ nextCall = 1
  /\ pc = [p \in Procs |-> "idle"]
  /\ loc = [p \in Procs |-> Loc0]
  /\ out = Out0
  /\ nreq = 0
  /\ users = Users0
  /\ now = 0
  /\ tz = 0

StatsStep(p) ==
  \/ CC_Request(p, {"callback"}, ReasonInputs, {})
  \/ CC_Create(p)
  \/ CC_Populate(p)
  \/ DL_FindLead(p)
  \/ DL_DeleteCalls(p)
  \/ DL_DeleteLead(p)
  \/ DS_CountLeads(p)
  \/ DS_CountCalls(p)
  \/ DS_CountConnected(p)
  \/ DS_CountTelecallers(p)

NextStats == \E p \in Procs : StatsStep(p) /\ UNCHANGED <<users, now, tz>>

SpecStats == InitStats /\ [][NextStats]_vars

\* ============================================================== user handlers
\* Values that requests send for the fields of a User.
NameInputs == {"n1"}
PhoneInputs == {"p1"}
RoleInputs == {"admin", "telecaller"}
NewPasswordInputs == {"pw1"}
CurrentPasswordInputs == {"pw0", "pw1"}

\* authorize(...roles), the middleware of the admin-only routes: the request
\* goes on only if the caller's role is one of the roles (403 otherwise).
Authorize(role, roles) == role \in roles

\* User.findById: the document, or null.
FindUser(id) == IF id \in DOMAIN users THEN users[id] ELSE NoUser

\* user.save(): the paths that were changed in memory since the document was
\* read are written to the stored document.
ModifiedPaths(read, changed) == {f \in DOMAIN read : changed[f] # read[f]}
Saved(stored, read, changed) ==
  [f \in DOMAIN stored |-> IF f \in ModifiedPaths(read, changed)
                           THEN changed[f] ELSE stored[f]]

\* { $set: updateFields } applied to a stored document.
ApplySet(doc, fields) ==
  [f \in DOMAIN doc |-> IF f \in DOMAIN fields THEN fields[f] ELSE doc[f]]

\* ---- updateUser: PUT /api/users/:id, authorize('admin'), userValidation
\* The document in memory after the assignments of updateUser.
Assigned(user, callerRole, req) ==
  [user EXCEPT
     !.name = IF req.name # Absent THEN req.name ELSE @,
     !.phone = IF req.phone # Absent THEN req.phone ELSE @,
     !.role = IF req.role # Absent /\ callerRole = "admin" THEN req.role ELSE @]

\* authorize (403); userValidation (400: name and email are required);
\* User.findById (404); the handler's own test (403); the assignments.
UU_Request(p) ==
  /\ Start(p)
  /\ \E u \in DOMAIN users, id \in Users,
        nm \in NameInputs \cup {Absent}, ph \in PhoneInputs \cup {Absent},
        r \in RoleInputs \cup {Absent}, np \in NewPasswordInputs \cup {Absent},
        cp \in CurrentPasswordInputs \cup {Absent} :
       LET req == [NoReq EXCEPT !.uid = id, !.name = nm, !.phone = ph, !.role = r,
                                !.newPassword = np, !.currentPassword = cp]
           l == [Loc0 EXCEPT !.op = "updateUser", !.user = u, !.role = Role(u),
                             !.req = req]
           user == FindUser(id)
           isSelfUpdate == u = id
           unew == Assigned(user, Role(u), req)
       IN IF ~Authorize(Role(u), {"admin"}) THEN Reply(p, l, 403, <<>>)
          ELSE IF nm = Absent THEN Reply(p, l, 400, <<>>)
          ELSE IF user = NoUser THEN Reply(p, l, 404, <<>>)
          ELSE IF ~isSelfUpdate /\ Role(u) # "admin" THEN Reply(p, l, 403, <<>>)
          ELSE IF np # Absent /\ isSelfUpdate
               THEN Goto(p, [l EXCEPT !.udoc = user, !.unew = unew], "uu_password")
               ELSE Goto(p, [l EXCEPT !.udoc = user,
                                      !.unew = IF np # Absent
                                               THEN [unew EXCEPT !.password = Hash(np)]
                                               ELSE unew],
                         "uu_save")
  /\ UNCHANGED users

\* User.findById(...).select('+password') and matchPassword (401); a user
\* that is gone makes the handler throw (500).
UU_Password(p) ==
  /\ pc[p] = "uu_password"
  /\ LET userWithPassword == FindUser(loc[p].req.uid)
         cp == loc[p].req.currentPassword
     IN IF userWithPassword = NoUser THEN Reply(p, loc[p], 500, <<>>)
        ELSE IF cp = Absent \/ ~MatchPassword(userWithPassword, cp)
             THEN Reply(p, loc[p], 401, <<>>)
             ELSE Goto(p, [loc[p] EXCEPT !.unew.password = Hash(loc[p].req.newPassword)],
                       "uu_save")
  /\ UNCHANGED <<users, nreq>>

\* user.save(): nothing to write, or the modified paths are written to the
\* stored document; Mongoose throws if there is none (500).
UU_Save(p) ==
  /\ pc[p] = "uu_save"
  /\ LET id == loc[p].req.uid
     IN IF ModifiedPaths(loc[p].udoc, loc[p].unew) = {}
        THEN /\ Reply(p, loc[p], 200, loc[p].unew)
             /\ users' = users
        ELSE IF id \notin DOMAIN users
             THEN /\ Reply(p, loc[p], 500, <<>>)
                  /\ users' = users
             ELSE /\ users' = [users EXCEPT ![id] = Saved(@, loc[p].udoc, loc[p].unew)]
                  /\ Reply(p, loc[p], 200, loc[p].unew)
  /\ UNCHANGED nreq

\* ---- deleteUser: DELETE /api/users/:id, authorize('admin')
DU_Request(p) ==
  /\ Start(p)
  /\ \E u \in DOMAIN users, id \in Users :
       LET l == [Loc0 EXCEPT !.op = "deleteUser", !.user = u, !.role = Role(u),
                             !.req.uid = id]
       IN IF ~Authorize(Role(u), {"admin"}) THEN Reply(p, l, 403, <<>>)
          ELSE IF FindUser(id) = NoUser THEN Reply(p, l, 404, <<>>)
          ELSE IF u = id THEN Reply(p, l, 400, <<>>)
          ELSE Goto(p, l, "du_delete")
  /\ UNCHANGED users

\* user.deleteOne()
DU_Delete(p) ==
  /\ pc[p] = "du_delete"
  /\ users' = Without(users, {loc[p].req.uid})
  /\ Reply(p, loc[p], 200, <<>>)
  /\ UNCHANGED nreq

\* ---- getUserStats: GET /api/users/:id/stats
\* `${Math.round((connectedCalls / totalCalls) * 100)}%`, or '0%'.
UserConnectionRate(connectedCalls, totalCalls) ==
  IF totalCalls = 0 THEN ZeroPercent
  ELSE [hundredths |-> 100 * ((2 * 100 * connectedCalls + totalCalls) \div (2 * totalCalls)),
        decimals |-> 0]

\* User.findById (404); the caller is the user or an admin (403 otherwise).
GS_FindUser(p) ==
  /\ Start(p)
  /\ \E u \in DOMAIN users, id \in Users :
       LET l == [Loc0 EXCEPT !.op = "getUserStats", !.user = u, !.role = Role(u),
                             !.req.uid = id]
           isSelf == u = id
       IN IF FindUser(id) = NoUser THEN Reply(p, l, 404, <<>>)
          ELSE IF ~isSelf /\ Role(u) # "admin" THEN Reply(p, l, 403, <<>>)
          ELSE Goto(p, l, "gs_total")
  /\ UNCHANGED users

GS_Total(p) ==
  /\ pc[p] = "gs_total"
  /\ Goto(p, [loc[p] EXCEPT !.stats.totalCalls =
                 Cardinality({c \in DOMAIN calls : calls[c].user = loc[p].req.uid})],
          "gs_connected")
  /\ UNCHANGED <<users, nreq>>

GS_Connected(p) ==
  /\ pc[p] = "gs_connected"
  /\ Goto(p, [loc[p] EXCEPT !.stats.connectedCalls =
                 Cardinality({c \in DOMAIN calls : /\ calls[c].user = loc[p].req.uid
                                                    /\ calls[c].status = "connected"})],
          "gs_week")
  /\ UNCHANGED <<users, nreq>>

\* oneWeekAgo, the last count and the response.
GS_Week(p) ==
  /\ pc[p] = "gs_week"
  /\ LET oneWeekAgo == AddDays(now, -7)
         callsThisWeek ==
           Cardinality({c \in DOMAIN calls : /\ calls[c].user = loc[p].req.uid
                                              /\ calls[c].createdAt >= oneWeekAgo})
     IN Reply(p, loc[p], 200,
              [totalCalls |-> loc[p].stats.totalCalls,
               connectedCalls |-> loc[p].stats.connectedCalls,
               connectionRate |-> UserConnectionRate(loc[p].stats.connectedCalls,
                                                     loc[p].stats.totalCalls),
               callsThisWeek |-> callsThisWeek])
  /\ UNCHANGED <<users, nreq>>

\* ---- updateProfile: PUT /api/users/profile
\* Variant: updateFields takes the role from the body as well.
ProfileFieldsWithRole(req) ==
  [f \in {f \in {"name", "phone", "role"} : req[f] # Absent} |-> req[f]]

\* updateFields of updateProfile before the password: the name (email) and
\* phone that the body carries.
ProfileFields(req) ==
  [f \in {f \in {"name", "phone"} : req[f] # Absent} |-> req[f]]

\* Without newPassword: findByIdAndUpdate(userId, { $set: updateFields }) with
\* lastActive.  With newPassword: currentPassword is required (400),
\* User.findById and matchPassword (401), the hash joins updateFields.
UP_Request(p) ==
  /\ Start(p)
  /\ \E u \in DOMAIN users,
        nm \in NameInputs \cup {Absent}, ph \in PhoneInputs \cup {Absent},
        r \in RoleInputs \cup {Absent}, np \in NewPasswordInputs \cup {Absent},
        cp \in CurrentPasswordInputs \cup {Absent} :
       LET req == [NoReq EXCEPT !.name = nm, !.phone = ph, !.role = r,
                                !.newPassword = np, !.currentPassword = cp]
           l == [Loc0 EXCEPT !.op = "updateProfile", !.user = u, !.role = Role(u),
                             !.req = req]
           updateFields == ProfileFields(req)
       IN IF np # Absent
          THEN /\ IF cp = Absent THEN Reply(p, l, 400, <<>>)
                  ELSE IF ~MatchPassword(users[u], cp) THEN Reply(p, l, 401, <<>>)
                  ELSE Goto(p, [l EXCEPT !.updateFields =
                                  With(updateFields, "password", Hash(np))],
                            "up_update")
               /\ users' = users
          ELSE /\ users' = [users EXCEPT
                              ![u] = ApplySet(@, With(updateFields, "lastActive", now))]
               /\ Reply(p, l, 200, users'[u])

\* findByIdAndUpdate(userId, { $set: updateFields }) with lastActive: null,
\* and no error, if the user is gone.
UP_Update(p) ==
  /\ pc[p] = "up_update"
  /\ LET u == loc[p].user
     IN IF u \in DOMAIN users
        THEN /\ users' = [users EXCEPT
                            ![u] = ApplySet(@, With(loc[p].updateFields, "lastActive", now))]
             /\ Reply(p, loc[p], 200, users'[u])
        ELSE /\ users' = users
             /\ Reply(p, loc[p], 200, <<>>)
  /\ UNCHANGED nreq

\* The user routes, with one lead of t1 and a call of t1 on it in the store;
\* two requests are served.
InitUsers ==
  /\ leads = With(<<>>, 1, [id |-> 1, status |-> "contacted", source |-> "website",
                             createdBy |-> "t1", lastModifiedBy |-> "t1"])
  /\ calls = With(<<>>, 1, [lead |-> 1, user |-> "t1", status |-> "connected",
                             duration |-> 0, connectedResponse |-> "discussed",
                             notConnectedReason |-> Absent, createdAt |-> 0])
  /\ nextLead = 2
  /\ nextCall = 2
  /\ pc = [p \in Procs |-> "idle"]
  /\ loc = [p \in Procs |-> Loc0]
  /\ out = Out0
  /\ nreq = MaxRequests - 2
  /\ users = Users0
  /\ now = 0
  /\ tz = 0

UserStep(p) ==
  \/ UU_Request(p)
  \/ UU_Password(p)
  \/ UU_Save(p)
  \/ DU_Request(p)
  \/ DU_Delete(p)
  \/ GS_FindUser(p)
  \/ GS_Total(p)
  \/ GS_Connected(p)
  \/ GS_Week(p)
  \/ UP_Request(p)
  \/ UP_Update(p)

NextUsers ==
  \E p \in Procs :
    UserStep(p) /\ UNCHANGED <<leads, calls, nextLead, nextCall, now, tz>>

SpecUsers == InitUsers /\ [][NextUsers]_vars

\* ===================================================================== claims
\* The request that the step started, if it started one: the locals of its
\* handler, which has answered already or has gone on.
Started == nreq' = nreq + 1
NewRequest ==
  IF out'.code # 0 THEN out'.by
  ELSE loc'[CHOOSE p \in Procs : loc'[p] # loc[p]]

\* The handler of a createCall took the step.
CallHandlerStep(p) == pc[p] \in {"cc_create", "cc_update", "cc_populate", "cc_save"}
                      /\ (pc'[p] # pc[p] \/ loc'[p] # loc[p])

\* The transition function of the lead state machine, as the specification
\* words it.
NextStatusOf(current, status, response) ==
  IF status = "connected" /\ response = "interested"
     /\ current \in {"new", "contacted"}
  THEN "qualified"
  ELSE IF current = "new" THEN "contacted" ELSE current

\* C1: a createCall that runs alone on a lead and completes leaves the lead's
\* persisted status equal to nextStatus(status before, outcome of the call),
\* for each of the six statuses and each outcome.
C1_StatusAfterCall ==
  (out.by.op = "createCall" /\ out.code = 201) =>
     /\ out.by.req.id \in DOMAIN leads
     /\ leads[out.by.req.id].status =
          NextStatusOf(out.by.lead.status, out.by.req.status,
                       out.by.req.connectedResponse)

C1_Witness ==
  /\ out.by.op = "createCall" /\ out.code = 201
  /\ out.by.lead.status = "contacted"
  /\ out.by.req.connectedResponse = "interested"
  /\ leads[out.by.req.id].status = "qualified"

\* The changes of status that the state machine allows.
IsTransition(a, b) ==
  <<a, b>> \in {<<"new", "contacted">>, <<"new", "qualified">>,
                <<"contacted", "qualified">>}

\* C2: every change that createCall makes to a lead's persisted status is a
\* transition of the state machine from the status persisted just before the
\* write (no move to an earlier stage), whatever runs concurrently.
C2_NoRegression ==
  [][\A p \in Procs :
       (CallHandlerStep(p) /\ loc[p].req.id \in DOMAIN leads
        /\ loc[p].req.id \in DOMAIN leads'
        /\ leads'[loc[p].req.id].status # leads[loc[p].req.id].status)
       => IsTransition(leads[loc[p].req.id].status, leads'[loc[p].req.id].status)]_vars

C5_CreatedByImmutable ==
  [][/\ \A i \in DOMAIN leads' \ DOMAIN leads :
          leads'[i].createdBy = out'.by.user
     /\ \A i \in DOMAIN leads :
          i \in DOMAIN leads' => leads'[i].createdBy = leads[i].createdBy]_vars

\* C6: createCall attempts a write of the lead's status only after its Call
\* is stored, no step of createCall removes or changes a stored Call, and when
\* a status write fails the Call stays in the collection.
C6_CallBeforeStatus ==
  [][\A p \in Procs :
       /\ (pc[p] = "cc_create" /\ pc'[p] # pc[p])
            => /\ loc'[p].callId \in DOMAIN calls' \ DOMAIN calls
               /\ calls'[loc'[p].callId] = NewCallDoc(loc[p].callData, now)
               /\ leads' = leads
       /\ CallHandlerStep(p)
            => \A c \in DOMAIN calls : c \in DOMAIN calls' /\ calls'[c] = calls[c]
       /\ (CallHandlerStep(p) /\ pc[p] \in {"cc_update", "cc_save"})
            => /\ loc[p].callId # 0
               /\ out'.code = 500 =>
                    (leads' = leads /\ calls' = calls /\ out'.by.callId = loc[p].callId)
       /\ (CallHandlerStep(p) /\ leads' # leads) => pc[p] \in {"cc_update", "cc_save"}]_vars

C6_Witness ==
  /\ out.by.op = "createCall" /\ out.code = 500
  /\ out.by.callId \in DOMAIN calls
  /\ [calls[out.by.callId] EXCEPT !.createdAt = 0] = out.by.callData

\* C7: a createCall whose Call is stored answers with success (201), also when
\* the write of the lead's status fails afterwards.
C7_SuccessAfterPartialFailure ==
  (out.by.op = "createCall" /\ out.by.callId # 0) => out.code = 201

\* C8: when a createCall has changed the persisted status of a lead, the
\* lead's lastModifiedBy is the caller once the request is answered.
C8_LastModifiedBy ==
  (out.by.op = "createCall" /\ out.code = 201
   /\ out.by.req.id \in DOMAIN leads
   /\ leads[out.by.req.id].status # out.by.lead.status)
  => leads[out.by.req.id].lastModifiedBy = out.by.user

\* C9: every stored Call refers to a stored Lead.
C9_NoOrphanCall ==
  \A c \in DOMAIN calls : calls[c].lead \in DOMAIN leads

\* The leads that the caller may see.
InScope(u, doc) == Role(u) = "admin" \/ doc.createdBy = u

\* C10: the counts of getLeadSources and getLeadStatuses are counts over the
\* leads in the caller's scope: for each value, the number of such leads with
\* that value.
C10_ScopedCounts ==
  (out.by.op \in {"getLeadSources", "getLeadStatuses"} /\ out.code = 200)
  => LET field == IF out.by.op = "getLeadSources" THEN "source" ELSE "status"
         inScope == {i \in DOMAIN leads : InScope(out.by.user, leads[i])}
     IN /\ \A k \in 1..Len(out.data) :
             out.data[k].count =
               Cardinality({i \in inScope : leads[i][field] = out.data[k].value})
        /\ \A i \in inScope : \E k \in 1..Len(out.data) :
             out.data[k].value = leads[i][field]

\* C11: getCallTrends answers with exactly days buckets, each with a date
\* field, the dates increasing by one day from bucket to bucket, for every
\* store (days without calls included).
C11_TrendBuckets ==
  (out.by.op = "getCallTrends" /\ out.code = 200)
  => /\ Len(out.data) = Days(out.by.req)
     /\ \A k \in 1..Len(out.data) : "date" \in DOMAIN out.data[k]
     /\ \A k \in 1..(Len(out.data) - 1) : out.data[k + 1].date = out.data[k].date + 1

\* The day that a bucket is labelled with.
Label(b) == IF "date" \in DOMAIN b THEN b.date ELSE b._id

\* The calls that the caller's trends are about.
CallInScope(u, c) == Role(u) = "admin" \/ c.user = u

\* C12: in one time zone (the server's or UTC), the buckets are labelled with
\* the days from today - days + 1 to today, and each counts the caller's
\* calls created on its day, whatever the server's offset from UTC.
C12_TrendWindow ==
  (out.by.op = "getCallTrends" /\ out.code = 200)
  => \E z \in {0, tz} :
       LET days == Days(out.by.req)
           DayOf(t) == (t + z) \div DayLen
           first == DayOf(now) - days + 1
       IN /\ Len(out.data) = days
          /\ \A k \in 1..days :
                /\ Label(out.data[k]) = first + k - 1
                /\ out.data[k].count =
                     Cardinality({c \in DOMAIN calls :
                                    /\ CallInScope(out.by.user, calls[c])
                                    /\ DayOf(calls[c].createdAt) = first + k - 1})

\* C15: a getDashboardStats response whose totalCalls is 0 is a success with
\* connectionRate "0%" and connectedCalls 0, for an admin and for a
\* telecaller.
C15_EmptyCallSet ==
  (out.by.op = "getDashboardStats" /\ out.code # 0 /\ out.by.stats.totalCalls = 0)
  => /\ out.code = 200
     /\ out.data.totalCalls = 0
     /\ out.data.connectionRate = ZeroPercent
     /\ out.data.connectedCalls = 0

\* The locals of the handler that took the step.
Actor ==
  IF Started THEN NewRequest
  ELSE loc[CHOOSE p \in Procs : pc[p] # "idle" /\ pc'[p] # pc[p]]

\* C16: a step of a request whose caller is no admin adds and removes no
\* User, changes no User but the caller's own, changes no role, and succeeds
\* with neither updateUser nor deleteUser nor getUserStats of another user.
C16_OnlyAdminManagesUsers ==
  [][Actor.role # "admin"
     => /\ DOMAIN users' = DOMAIN users
        /\ \A v \in DOMAIN users :
              /\ users'[v].role = users[v].role
              /\ v # Actor.user => users'[v] = users[v]
        /\ (out'.code = 200 /\ out'.by.op \in {"updateUser", "deleteUser"}) => FALSE
        /\ (out'.code = 200 /\ out'.by.op = "getUserStats")
              => out'.by.req.uid = Actor.user]_vars

C16_Witness ==
  /\ out.by.op = "updateProfile" /\ out.code = 200
  /\ out.by.role = "telecaller"
  /\ out.by.req.role = "admin"
  /\ out.by.req.newPassword # Absent
  /\ users[out.by.user].role = "telecaller"
  /\ users[out.by.user].name = "n1"
  /\ users[out.by.user].password = Hash("pw1")

\* C17: in every getDashboardStats response connectedCalls is at most
\* totalCalls, also when createCall or deleteLead commit between the counts.
C17_ConnectedAtMostTotal ==
  (out.by.op = "getDashboardStats" /\ out.code = 200)
  => out.data.connectedCalls <= out.data.totalCalls

\* ---------------------------------------------------------------------------
\* The body of a create-call request lacks the outcome field that its status
\* requires.
MissingOutcome(req) ==
  \/ req.status = "connected" /\ req.connectedResponse = Absent
  \/ req.status = "not_connected" /\ req.notConnectedReason = Absent

\* C13: a create-call request with status connected and no connectedResponse,
\* or status not_connected and no notConnectedReason, is answered 400 by the
\* validation at once: no Call is stored and no Lead is changed.
C13_MissingOutcomeRejected ==
  [][(Started /\ NewRequest.op = "createCall" /\ MissingOutcome(NewRequest.req))
     => (out'.code = 400 /\ pc' = pc /\ calls' = calls /\ leads' = leads)]_vars

C13_Witness ==
  /\ out.by.op = "createCall" /\ out.code = 400
  /\ out.by.req.status = "connected"
  /\ out.by.req.connectedResponse = Absent
  /\ out.by.req.duration = NoDuration
  /\ out.by.req.id \in DOMAIN leads
  /\ ~NotOwner(out.by.user, leads[out.by.req.id])
  /\ calls = <<>>

\* C14: every stored Call has a duration of at least 0, and a Call created
\* from a request without duration has duration 0.
C14_DurationNonNegative ==
  /\ \A c \in DOMAIN calls : calls[c].duration >= 0
  /\ (out.by.op = "createCall" /\ out.code = 201 /\ ~out.by.req.duration.present)
       => calls[out.by.callId].duration = 0

\* C18: no stored Call carries the outcome field of the other status, whatever
\* the body carried; and a not_connected call whose body carries the response
\* interested does not move the lead to qualified.
C18_OutcomeMatchesStatus ==
  /\ \A c \in DOMAIN calls :
        /\ calls[c].status = "connected" => calls[c].notConnectedReason = Absent
        /\ calls[c].status = "not_connected" => calls[c].connectedResponse = Absent
  /\ (out.by.op = "createCall" /\ out.code = 201
      /\ out.by.req.status = "not_connected"
      /\ out.by.req.connectedResponse = "interested"
      /\ leads[out.by.req.id].status = "qualified")
       => out.by.lead.status = "qualified"

C18_Witness ==
  /\ out.by.op = "createCall" /\ out.code = 201
  /\ out.by.req.status = "not_connected"
  /\ out.by.req.connectedResponse = "interested"
  /\ out.by.lead.status = "contacted"
  /\ leads[out.by.req.id].status = "contacted"
  /\ calls[out.by.callId].status = "not_connected"
  /\ calls[out.by.callId].connectedResponse = Absent
  /\ calls[out.by.callId].notConnectedReason # Absent
====
